---- MODULE Spec2Model ----
(***************************************************************************)
(* Model of the HTTP polling transport of mettle (src/mettle/src/c2_http.c) *)
(* One struct http_ctx, driven by the transport hooks (start, egress,      *)
(* stop), the poll timer callback and the request completion callback.     *)
(***************************************************************************)
EXTENDS Integers, Sequences, FiniteSets, TLC

\* ------------------------------------------------------------------------
\* Bounds of the model
\* ------------------------------------------------------------------------
\* total number of bytes the framework hands to egress in one run
MaxBytes == 2
\* largest number of bytes one egress call moves
MaxChunk == 2
\* the count of consecutive idle completions saturates here
MaxIdleRun == 52

\* ------------------------------------------------------------------------
\* ev_tstamp is a C double.  A non-negative double d is held as the integer
\* d * 2^59 written in three limbs <<h, m, l>> of 21 bits (h most
\* significant); every value the program computes is a multiple of 2^-59.
\* An addition is the exact sum rounded to 53 significant bits, ties to
\* even, as IEEE 754 binary64 does.
\* ------------------------------------------------------------------------
Limb == 2^21

\* the literal 0.0 (calloc'ed struct)
DZero == <<0, 0, 0>>
\* the literal 0.01 = 0x1.47ae147ae147bp-7
D0_01 == <<1310, 1509949, 922747>>
\* the literal 0.1 = 0x1.999999999999ap-4
D0_1 == <<13107, 419430, 838864>>
\* the literal 5.0
D5_0 == <<655360, 0, 0>>

\* a < b on doubles
DblLess(a, b) ==
    \/ a[1] < b[1]
    \/ a[1] = b[1] /\ a[2] < b[2]
    \/ a[1] = b[1] /\ a[2] = b[2] /\ a[3] < b[3]

\* number of binary digits of n
RECURSIVE BitLen(_)
BitLen(n) == IF n = 0 THEN 0 ELSE 1 + BitLen(n \div 2)

\* carry propagation of a limb triple whose limbs may exceed Limb - 1
Normalise(x) ==
    LET l == x[3] % Limb
        c2 == x[3] \div Limb
        m == (x[2] + c2) % Limb
        c1 == (x[2] + c2) \div Limb
    IN  <<x[1] + c1, m, l>>

\* round an exact value to 53 significant bits, ties to even
Round53(x) ==
    LET len == IF x[1] > 0 THEN 42 + BitLen(x[1])
               ELSE IF x[2] > 0 THEN 21 + BitLen(x[2])
               ELSE BitLen(x[3])
        s == IF len > 53 THEN len - 53 ELSE 0
        unit == 2^s
        rem == x[3] % unit
        low == x[3] - rem
        odd == (low \div unit) % 2 = 1
        up == s > 0 /\ (2 * rem > unit \/ (2 * rem = unit /\ odd))
    IN  Normalise(<<x[1], x[2], IF up THEN low + unit ELSE low>>)

\* a + b on doubles
DblAdd(a, b) == Round53(Normalise(<<a[1] + b[1], a[2] + b[2], a[3] + b[3]>>))


\* ------------------------------------------------------------------------
\* Strings are sequences of characters; a NULL char * is NullStr
\* ------------------------------------------------------------------------
NullStr == <<"NULL">>

\* a TLV the packet does not carry (tlv_packet_get_str returns NULL)
Null == "null"

\* index of the first c in s at or after position from (1-based), 0 if none
RECURSIVE strchr(_, _, _)
strchr(s, from, c) ==
    IF from > Len(s) THEN 0
    ELSE IF s[from] = c THEN from
    ELSE strchr(s, from + 1, c)

\* the addresses the framework may assign to the transport
\* (c2_transport_uri): an http(s) URI, optionally followed by '|' and
\* arguments
TransportUris ==
    { <<"h", ":", "/", "/", "a">>,
      <<"h", ":", "/", "/", "a", "/", "b", "/", "c", "|", "x">> }

\* the new paths a patch-url frame may carry
NewPaths == { <<"/", "v">> }

\* response bodies: len bytes that either decode to one TLV packet, with or
\* without its METHOD string and its TRANS_URL string, or do not decode
Bodies ==
    { [len |-> 0, decodes |-> FALSE, method |-> Null, url |-> NullStr],
      [len |-> 1, decodes |-> FALSE, method |-> Null, url |-> NullStr] }
        \cup [len : {2}, decodes : {TRUE},
              method : {Null, "core_patch_url", "other"},
              url : {NullStr} \cup NewPaths]

\* status codes the HTTP client reports (<= 0: no response)
Codes == {0, 200, 404}

\* ------------------------------------------------------------------------
\* State
\* ------------------------------------------------------------------------
VARIABLES
    uri,            \* ctx->uri
    egress,         \* ctx->egress, the bytes queued for sending
    first_packet,   \* ctx->first_packet
    in_flight,      \* ctx->in_flight
    running,        \* ctx->running
    repeat,         \* ctx->poll_timer.repeat
    active,         \* the poll timer is armed in the event loop
    crashed,        \* the process died
    released,       \* times buffer_queue_free was called on ctx->egress
    ctxFreed,       \* http_ctx_free has freed the context
    pending,        \* requests handed to the HTTP client, callback not yet run
    appended,       \* history: number of bytes egress has appended
    posted,         \* history: the POST bodies issued so far, concatenated
    initUri,        \* history: ctx->uri as http_transport_init left it
    idleRun,        \* history: completions without a command since 0.01
    last            \* history: the last operation and what it did

vars == <<uri, egress, first_packet, in_flight, running, repeat, active,
          crashed, released, ctxFreed, pending, appended, posted, initUri,
          idleRun, last>>

teardownVars == <<released, ctxFreed>>

\* a handler that uses ctx->egress after it was released has undefined
\* behaviour: the process dies in it (TRUE), or the freed queue still works
QueueUseDies(uses) ==
    IF uses /\ released > 0 THEN {FALSE, TRUE} ELSE {FALSE}

\* ------------------------------------------------------------------------
\* http_transport_init
\* ------------------------------------------------------------------------
\* strdup of the address, cut at the first '|'
InitUri(addr) ==
    LET args == strchr(addr, 1, "|")
    IN  IF args = 0 THEN addr ELSE SubSeq(addr, 1, args - 1)

Init ==
    /\ \E addr \in TransportUris :
          /\ uri = InitUri(addr)
          /\ initUri = InitUri(addr)
    /\ egress = <<>>
    /\ first_packet = 1
    /\ in_flight = 0
    /\ running = 0
    /\ repeat = DZero
    /\ active = FALSE
    /\ crashed = FALSE
    /\ released = 0
    /\ ctxFreed = FALSE
    /\ pending = <<>>
    /\ appended = 0
    /\ posted = <<>>
    /\ idleRun = 0
    /\ last = [op |-> "init"]

\* ------------------------------------------------------------------------
\* http_transport_start
\* ------------------------------------------------------------------------
http_transport_start ==
    /\ ~crashed
    /\ ~ctxFreed
    /\ running' = 1
    /\ repeat' = D0_01
    /\ active' = TRUE
    /\ idleRun' = 0
    /\ last' = [op |-> "start"]
    /\ UNCHANGED <<uri, egress, first_packet, in_flight, crashed, pending,
                   appended, posted, initUri, teardownVars>>

\* ------------------------------------------------------------------------
\* http_transport_stop
\* ------------------------------------------------------------------------
http_transport_stop ==
    /\ ~crashed
    /\ ~ctxFreed
    /\ running' = IF running # 0 THEN 0 ELSE running
    /\ last' = [op |-> "stop"]
    /\ UNCHANGED <<uri, egress, first_packet, in_flight, repeat, active,
                   crashed, pending, appended, posted, initUri, idleRun,
                   teardownVars>>

\* ------------------------------------------------------------------------
\* http_transport_egress: buffer_queue_move_all appends the caller's bytes.
\* The k-th byte ever appended is written k.
\* ------------------------------------------------------------------------
buffer_queue_move_all(q, n) == q \o [i \in 1..n |-> appended + i]

http_transport_egress(n) ==
    /\ ~crashed
    /\ ~ctxFreed
    /\ appended + n <= MaxBytes
    /\ \E dies \in QueueUseDies(TRUE) :
          /\ crashed' = dies
          /\ IF dies
             THEN UNCHANGED <<egress, appended>>
             ELSE /\ egress' = buffer_queue_move_all(egress, n)
                  /\ appended' = appended + n
    /\ last' = [op |-> "egress"]
    /\ UNCHANGED <<uri, first_packet, in_flight, running, repeat, active,
                   pending, posted, initUri, idleRun, teardownVars>>

\* ------------------------------------------------------------------------
\* http_poll_timer_cb: the poll timer fires.  The timer is one-shot: a
\* fired timer is armed again only by ev_timer_again.
\* ------------------------------------------------------------------------
\* TickRequest without the in_flight test
TickRequest_NoGuard ==
    IF Len(egress) > 0
    THEN [method |-> "POST", uri |-> uri, content |-> egress]
    ELSE [method |-> "GET", uri |-> uri, content |-> <<>>]

\* TickRequest posting only the first queued byte
TickRequest_FirstByte ==
    IF in_flight # 0
    THEN [method |-> "none", uri |-> uri, content |-> <<>>]
    ELSE IF Len(egress) > 0
         THEN [method |-> "POST", uri |-> uri, content |-> <<Head(egress)>>]
         ELSE [method |-> "GET", uri |-> uri, content |-> <<>>]

\* TickRequest posting also an empty queue
TickRequest_AlwaysPost ==
    IF in_flight # 0
    THEN [method |-> "none", uri |-> uri, content |-> <<>>]
    ELSE [method |-> "POST", uri |-> uri, content |-> egress]

\* the request the tick hands to the HTTP client; method "none" when the
\* tick issues nothing
TickRequest ==
    IF in_flight # 0
    THEN [method |-> "none", uri |-> uri, content |-> <<>>]
    ELSE IF Len(egress) > 0
         THEN [method |-> "POST", uri |-> uri, content |-> egress]
         ELSE [method |-> "GET", uri |-> uri, content |-> <<>>]

\* Rearm without the test of ctx->running
Rearm_Always == TRUE

\* the tick ends with ev_timer_again
Rearm == running # 0

http_poll_timer_cb ==
    /\ ~crashed
    /\ ~ctxFreed
    /\ active
    /\ \E dies \in QueueUseDies(in_flight = 0) :
          LET req == TickRequest
          IN  /\ crashed' = dies
              /\ IF dies
                 THEN /\ in_flight' = 1
                      /\ active' = FALSE
                      /\ UNCHANGED <<egress, pending, posted>>
                 ELSE /\ IF req.method = "none"
                         THEN UNCHANGED <<in_flight, egress, pending, posted>>
                         ELSE /\ in_flight' = 1
                              /\ egress' = IF req.method = "POST" THEN <<>>
                                           ELSE egress
                              /\ pending' = Append(pending, req)
                              /\ posted' = posted \o req.content
                      /\ active' = Rearm
              /\ last' = [op |-> "tick",
                          issued |-> IF dies THEN "none" ELSE req.method,
                          read |-> in_flight = 0]
    /\ UNCHANGED <<uri, first_packet, running, repeat, appended, initUri,
                   idleRun, teardownVars>>

\* ------------------------------------------------------------------------
\* patch_uri
\* ------------------------------------------------------------------------
\* what the frame codec makes of a response body
tlv_packet_read_buffer_queue(q) == q

\* SplitLoop stopping after two steps
RECURSIVE SplitLoop_TwoSteps(_, _, _)
SplitLoop_TwoSteps(u, split, i) ==
    IF i >= 2 \/ split = 0 THEN split
    ELSE SplitLoop_TwoSteps(u, strchr(u, split + 1, "/"), i + 1)

\* the loop of patch_uri: split starts at the first character and moves
\* three times to the next '/' after it; 0 is the NULL pointer
RECURSIVE SplitLoop(_, _, _)
SplitLoop(u, split, i) ==
    IF i = 3 \/ split = 0 THEN split
    ELSE SplitLoop(u, strchr(u, split + 1, "/"), i + 1)

\* the old string after *split = '\0'
Truncate(u) ==
    LET split == SplitLoop(u, 1, 0)
    IN  IF split # 0 THEN SubSeq(u, 1, split - 1) ELSE u

\* outcomes of asprintf: "ok", or a failure that leaves the pointer either
\* NULL ("null") or as it was ("kept")
AllocOutcomes == {"ok", "null", "kept"}

\* outcomes of strcmp on a NULL method: the process dies, or the strings
\* compare unequal
UbOutcomes == {"crash", "differ"}

\* patch_uri appending the new path only after a truncation
patch_uri_NoAppend(u, q, alloc, ub) ==
    LET request == tlv_packet_read_buffer_queue(q)
    IN  IF ~request.decodes THEN [crash |-> FALSE, uri |-> u]
        ELSE IF request.method = Null
             THEN [crash |-> (ub = "crash"), uri |-> u]
        ELSE IF request.method = "core_patch_url" /\ request.url # NullStr
                  /\ SplitLoop(u, 1, 0) # 0
             THEN CASE alloc = "ok" ->
                         [crash |-> FALSE, uri |-> Truncate(u) \o request.url]
                    [] alloc = "null" -> [crash |-> FALSE, uri |-> NullStr]
                    [] OTHER -> [crash |-> FALSE, uri |-> Truncate(u)]
        ELSE [crash |-> FALSE, uri |-> u]

\* the outcome of patch_uri on ctx->uri = u: the new ctx->uri, and whether
\* the process died in it
patch_uri(u, q, alloc, ub) ==
    LET request == tlv_packet_read_buffer_queue(q)
    IN  IF ~request.decodes THEN [crash |-> FALSE, uri |-> u]
        ELSE IF request.method = Null
             THEN [crash |-> (ub = "crash"), uri |-> u]
        ELSE IF request.method = "core_patch_url" /\ request.url # NullStr
             THEN CASE alloc = "ok" ->
                         [crash |-> FALSE, uri |-> Truncate(u) \o request.url]
                    [] alloc = "null" -> [crash |-> FALSE, uri |-> NullStr]
                    [] OTHER -> [crash |-> FALSE, uri |-> Truncate(u)]
        ELSE [crash |-> FALSE, uri |-> u]

\* a body the completion never fetched from the connection (code # 200)
Unread == [len |-> 0, decodes |-> FALSE, method |-> "unread", url |-> NullStr]

\* which of the two inputs above patch_uri consults on body q
UsesAlloc(q) ==
    q.decodes /\ q.method = "core_patch_url" /\ q.url # NullStr

UsesUb(q) == q.decodes /\ q.method = Null

\* ------------------------------------------------------------------------
\* http_poll_cb: a request completes with a status code and a body
\* ------------------------------------------------------------------------
\* Reachable counting status 0 as a response
Reachable_NonNegative(code) == code >= 0

\* c2_transport_reachable (TRUE) or c2_transport_unreachable (FALSE)
Reachable(code) == code > 0

\* the reports the completion makes to the framework, in order
Reports(code) ==
    << IF Reachable(code) THEN "reachable" ELSE "unreachable" >>

\* the completion runs the handshake
IsHandshake(code) == code = 200 /\ first_packet # 0

\* Delivers without the test for status 200
Delivers_AnyCode(code, q) == code > 0 /\ first_packet = 0 /\ q.len # 0

\* Delivers without the test of the body length
Delivers_EmptyToo(code, q) == code = 200 /\ first_packet = 0

\* the completion hands the body to c2_transport_ingress_queue
Delivers(code, q) == code = 200 /\ first_packet = 0 /\ q.len # 0

\* got_command at line 82
GotCommand(code, q) == IsHandshake(code) \/ Delivers(code, q)

\* NextRepeat that ramps whether or not a command came
NextRepeat_NoReset(got_command, r) ==
    IF DblLess(r, D0_1) THEN D0_1
    ELSE IF DblLess(r, D5_0) THEN DblAdd(r, D0_1)
    ELSE r

\* NextRepeat that leaves the interval alone once the channel is stopped
NextRepeat_OnlyRunning(got_command, r) ==
    IF running = 0 THEN r
    ELSE IF got_command THEN D0_01
    ELSE IF DblLess(r, D0_1) THEN D0_1
    ELSE IF DblLess(r, D5_0) THEN DblAdd(r, D0_1)
    ELSE r

\* the backoff update
NextRepeat(got_command, r) ==
    IF got_command THEN D0_01
    ELSE IF DblLess(r, D0_1) THEN D0_1
    ELSE IF DblLess(r, D5_0) THEN DblAdd(r, D0_1)
    ELSE r

http_poll_cb(code, q, alloc, ub) ==
    /\ ~crashed
    /\ ~ctxFreed
    /\ pending # <<>>
    /\ LET p == IF IsHandshake(code) THEN patch_uri(uri, q, alloc, ub)
                ELSE [crash |-> FALSE, uri |-> uri]
           got_command == GotCommand(code, q)
           done == [op |-> "cb", code |-> code, nonempty |-> q.len # 0,
                    body |-> IF code = 200 THEN q ELSE Unread,
                    reach |-> Reachable(code), reports |-> Reports(code),
                    crash |-> p.crash,
                    handshake |-> IsHandshake(code),
                    got |-> got_command /\ ~p.crash,
                    delivered |-> Delivers(code, q),
                    alloc |-> IF IsHandshake(code) /\ UsesAlloc(q)
                              THEN alloc ELSE "unused",
                    ramped |-> repeat # D0_01]
       IN  IF p.crash
           THEN /\ crashed' = TRUE
                /\ last' = done
                /\ UNCHANGED <<uri, first_packet, repeat, in_flight, pending,
                               idleRun>>
           ELSE /\ uri' = p.uri
                /\ first_packet' = IF IsHandshake(code) THEN 0
                                   ELSE first_packet
                /\ repeat' = NextRepeat(got_command, repeat)
                /\ in_flight' = 0
                /\ pending' = Tail(pending)
                /\ idleRun' = IF got_command THEN 0
                              ELSE IF idleRun < MaxIdleRun THEN idleRun + 1
                              ELSE idleRun
                /\ last' = done
                /\ UNCHANGED crashed
    /\ UNCHANGED <<egress, running, active, appended, posted, initUri,
                   teardownVars>>

\* ------------------------------------------------------------------------
\* The transport: the framework's calls and the event loop's callbacks in
\* any order
\* ------------------------------------------------------------------------
Next ==
    \/ http_transport_start
    \/ http_transport_stop
    \/ \E n \in 1..MaxChunk : http_transport_egress(n)
    \/ http_poll_timer_cb
    \/ \E code \in Codes, q \in Bodies :
          \E alloc \in IF UsesAlloc(q) THEN AllocOutcomes ELSE {"ok"},
             ub \in IF UsesUb(q) THEN UbOutcomes ELSE {"differ"} :
                http_poll_cb(code, q, alloc, ub)

Spec == Init /\ [][Next]_vars


\* ------------------------------------------------------------------------
\* Teardown: the free hook of the transport and the release of the context.
\* Neither stops the timer or clears ctx->egress.  The model follows the
\* channel up to the release of the context.
\* ------------------------------------------------------------------------
\* largest number of calls of the free hook
MaxFrees == 2

\* longest run of completions without a command while teardown is explored
MaxIdleFree == 2

\* releasing a queue that was already released is undefined: the process
\* dies in it (TRUE) or goes on
DoubleFreeDies == IF released > 0 THEN {FALSE, TRUE} ELSE {FALSE}

http_transport_free ==
    /\ ~crashed
    /\ ~ctxFreed
    /\ released < MaxFrees
    /\ released' = released + 1
    /\ \E dies \in DoubleFreeDies : crashed' = dies
    /\ last' = [op |-> "free"]
    /\ UNCHANGED <<uri, egress, first_packet, in_flight, running, repeat,
                   active, ctxFreed, pending, appended, posted, initUri,
                   idleRun>>

\* ctx->egress is never NULL after http_transport_init, so the queue is
\* released here too
http_ctx_free ==
    /\ ~crashed
    /\ ~ctxFreed
    /\ released' = released + 1
    /\ ctxFreed' = TRUE
    /\ \E dies \in DoubleFreeDies : crashed' = dies
    /\ last' = [op |-> "ctx_free"]
    /\ UNCHANGED <<uri, egress, first_packet, in_flight, running, repeat,
                   active, pending, appended, posted, initUri, idleRun>>

NextFree ==
    \/ http_transport_start
    \/ http_transport_stop
    \/ \E n \in 1..MaxChunk : http_transport_egress(n)
    \/ http_poll_timer_cb
    \/ \E code \in Codes, q \in Bodies :
          \E alloc \in IF UsesAlloc(q) THEN AllocOutcomes ELSE {"ok"},
             ub \in IF UsesUb(q) THEN UbOutcomes ELSE {"differ"} :
                http_poll_cb(code, q, alloc, ub) /\ idleRun' <= MaxIdleFree
    \/ http_transport_free
    \/ http_ctx_free

SpecFree == Init /\ [][NextFree]_vars

\* ------------------------------------------------------------------------
\* The channel that is never stopped or torn down, with an event loop that
\* fires the armed timer and an HTTP client that completes every request
\* ------------------------------------------------------------------------
\* longest run of completions without a command in this specification
MaxIdleLive == 2

\* some completion of the outstanding request
Completion ==
    \E code \in Codes, q \in Bodies :
       \E alloc \in IF UsesAlloc(q) THEN AllocOutcomes ELSE {"ok"},
          ub \in IF UsesUb(q) THEN UbOutcomes ELSE {"differ"} :
             http_poll_cb(code, q, alloc, ub) /\ idleRun' <= MaxIdleLive

NextLive ==
    \/ http_transport_start
    \/ \E n \in 1..MaxChunk : http_transport_egress(n)
    \/ http_poll_timer_cb
    \/ Completion

SpecLive ==
    /\ Init
    /\ [][NextLive]_vars
    /\ WF_vars(http_poll_timer_cb)
    /\ WF_vars(Completion)

\* ------------------------------------------------------------------------
\* The channel up to the end of its handshake, over more addresses
\* ------------------------------------------------------------------------
\* longest address tail after "h:"
MaxTail == 5

RECURSIVE Tails(_)
Tails(n) ==
    IF n = 0 THEN { <<>> }
    ELSE LET shorter == Tails(n - 1)
         IN  shorter \cup { Append(t, c) : t \in shorter, c \in {"/", "a"} }

PatchUris ==
    { <<"h", ":">> \o t : t \in Tails(MaxTail) }
        \cup { <<"h", ":">> \o t \o <<"|", "x">> : t \in Tails(2) }

InitPatch ==
    /\ \E addr \in PatchUris :
          /\ uri = InitUri(addr)
          /\ initUri = InitUri(addr)
    /\ egress = <<>>
    /\ first_packet = 1
    /\ in_flight = 0
    /\ running = 0
    /\ repeat = DZero
    /\ active = FALSE
    /\ crashed = FALSE
    /\ released = 0
    /\ ctxFreed = FALSE
    /\ pending = <<>>
    /\ appended = 0
    /\ posted = <<>>
    /\ idleRun = 0
    /\ last = [op |-> "init"]

NextPatch ==
    \/ http_transport_start
    \/ http_poll_timer_cb
    \/ \E q \in Bodies :
          \E alloc \in IF UsesAlloc(q) THEN AllocOutcomes ELSE {"ok"},
             ub \in IF UsesUb(q) THEN UbOutcomes ELSE {"differ"} :
                first_packet # 0 /\ http_poll_cb(200, q, alloc, ub)

SpecPatch == InitPatch /\ [][NextPatch]_vars


\* ------------------------------------------------------------------------
\* Properties
\* ------------------------------------------------------------------------
\* the bytes 1..n in order
Bytes(n) == [i \in 1..n |-> i]

\* a <= b on doubles
DblLeq(a, b) == ~DblLess(b, a)

\* number of '/' in s
RECURSIVE CountSlashes(_)
CountSlashes(s) ==
    IF s = <<>> THEN 0
    ELSE (IF Head(s) = "/" THEN 1 ELSE 0) + CountSlashes(Tail(s))

\* position of the third '/' of s (s has at least three)
ThirdSlash(s) ==
    CHOOSE i \in 1..Len(s) :
        s[i] = "/" /\ CountSlashes(SubSeq(s, 1, i - 1)) = 2

\* the body is a patch-url frame carrying a new path
IsPatchFrame(q) ==
    q.decodes /\ q.method = "core_patch_url" /\ q.url # NullStr

\* the last operation was a completion that ran to its end
Completed == last.op = "cb" /\ ~last.crash

\* C1: at most one request is outstanding: the requests handed to the HTTP
\* client whose callback has not run number 0 or 1, and there is one exactly
\* while in_flight is set, so a tick with in_flight set has issued nothing.
C1_AtMostOneOutstanding ==
    /\ Len(pending) <= 1
    /\ (Len(pending) = 1) <=> (in_flight # 0)
    /\ (last.op = "tick" /\ last.issued # "none") => Len(pending) = 1

\* a tick fired while a request was outstanding and issued nothing
C1_Witness ==
    /\ last.op = "tick"
    /\ last.issued = "none"
    /\ Len(pending) = 1
    /\ in_flight = 1

\* C2: once stopped (running = 0, so no start came after the stop), a tick
\* of the scheduler issues no request.
C2_NoRequestAfterStop ==
    (last.op = "tick" /\ running = 0) => last.issued = "none"

\* C3: the POST bodies issued so far followed by the queue are exactly the
\* bytes appended so far, in order (nothing lost, nothing sent twice), and a
\* tick that posts sends the whole queue: the body ends the posted bytes,
\* is not empty, and leaves the queue empty.
C3_QueueDrain ==
    /\ posted \o egress = Bytes(appended)
    /\ (last.op = "tick" /\ last.issued = "POST") =>
          /\ egress = <<>>
          /\ posted = Bytes(appended)
          /\ LET body == pending[Len(pending)].content
             IN  /\ body # <<>>
                 /\ body = SubSeq(posted, Len(posted) - Len(body) + 1,
                                  Len(posted))

\* a second POST that carries only the byte appended after the first POST
C3_Witness ==
    /\ last.op = "tick"
    /\ last.issued = "POST"
    /\ appended = 2
    /\ posted = <<1, 2>>
    /\ pending[1].content = <<2>>

\* C4: poll_timer.repeat is within [0.01, 5.0] in every state of the
\* context, from construction on.
C4_IntervalInRange == DblLeq(D0_01, repeat) /\ DblLeq(repeat, D5_0)

\* the interval a run of k idle completions should give, min(k/10, 5), and
\* the interval r compared in units of 2^-17 / 10, with a slack of two units
\* of 2^-17 for the rounding of the additions
NearIdleValue(r, k) ==
    LET want == IF k * 2^17 < 50 * 2^17 THEN k * 2^17 ELSE 50 * 2^17
        have == 10 * r[1]
    IN  have - want <= 20 /\ want - have <= 20

\* C5: after the k-th consecutive completion without a command, counted
\* from an interval of 0.01, the interval is min(0.1 * k, 5.0) and never
\* above 5.0.
C5_IdleBackoff ==
    idleRun >= 1 =>
        /\ NearIdleValue(repeat, idleRun)
        /\ DblLeq(repeat, D5_0)

\* C6: a completion in which got_command is true leaves the interval at
\* exactly 0.01.
C6_FastReset == (Completed /\ last.got) => repeat = D0_01

\* a body delivered after the handshake resets a ramped interval
C6_Witness ==
    /\ Completed
    /\ last.got
    /\ ~last.handshake
    /\ last.ramped
    /\ repeat = D0_01

\* what a completion with status code and body q makes of the context
CbEffect(code, q) ==
    [repeat |-> NextRepeat(GotCommand(code, q), repeat),
     first_packet |-> IF IsHandshake(code) THEN 0 ELSE first_packet,
     uri |-> IF IsHandshake(code) THEN patch_uri(uri, q, "ok", "differ").uri
             ELSE uri]

EmptyBody == [len |-> 0, decodes |-> FALSE, method |-> Null, url |-> NullStr]

\* a status above 0 other than 200 acts as an empty-body 200 does
LikeEmpty200 ==
    \A code \in {c \in Codes : c > 0 /\ c # 200}, q \in Bodies :
        /\ CbEffect(code, q) = CbEffect(200, EmptyBody)
        /\ ~Delivers(code, q)
        /\ Reachable(code)

\* C7 as stated: in every state of the context with a request outstanding,
\* the handshake done or not, a status above 0 other than 200 leaves
\* repeat, first_packet and uri as an empty-body 200 would, delivers
\* nothing and reports the channel reachable.
C7_AsStated == (pending # <<>> /\ ~crashed) => LikeEmpty200

\* C7 amended: the same, in the states where the handshake is done.
C7_AfterHandshake ==
    (pending # <<>> /\ ~crashed /\ first_packet = 0) => LikeEmpty200

\* a 404 with a body completed after the handshake: nothing delivered, the
\* interval ramped, the channel reported reachable
C7_Witness ==
    /\ Completed
    /\ last.code = 404
    /\ last.nonempty
    /\ ~last.handshake
    /\ first_packet = 0
    /\ ~last.delivered
    /\ ~last.got
    /\ last.reach
    /\ last.ramped
    /\ DblLess(D0_1, repeat)

\* C8: first_packet is cleared exactly once, by the completion of the first
\* response with status 200 whatever its body: after any completion with
\* status 200 it is clear, only such a completion clears it, and it is
\* never set again.
C8_HandshakeOnce ==
    /\ []((last.op = "cb" /\ last.code = 200) => first_packet = 0)
    /\ [][(first_packet # 0 /\ first_packet' = 0)
              => (last'.op = "cb" /\ last'.code = 200)]_vars
    /\ [][first_packet = 0 => first_packet' = 0]_vars

\* C9: the handshake on a patch-url frame with new path p, with ctx->uri
\* holding at least three '/', makes ctx->uri the text before its third '/'
\* followed by p.
C9_RewriteWithPath ==
    (/\ Completed
     /\ last.handshake
     /\ IsPatchFrame(last.body)
     /\ last.alloc = "ok"
     /\ CountSlashes(initUri) >= 3)
        => uri = SubSeq(initUri, 1, ThirdSlash(initUri) - 1) \o last.body.url

\* h://a/a became h://a/v: nothing of the old path is left
C9_Witness ==
    /\ Completed
    /\ last.handshake
    /\ IsPatchFrame(last.body)
    /\ last.alloc = "ok"
    /\ initUri = <<"h", ":", "/", "/", "a", "/", "a">>
    /\ uri = <<"h", ":", "/", "/", "a", "/", "v">>

\* C10 as stated: with fewer than three '/' in ctx->uri the handshake
\* leaves ctx->uri as it was, also on a patch-url frame with a new path.
C10_AsStated ==
    (/\ Completed
     /\ last.handshake
     /\ last.alloc \in {"ok", "unused"}
     /\ CountSlashes(initUri) < 3)
        => uri = initUri

\* C10 amended: with fewer than three '/' in ctx->uri nothing is cut off,
\* and a patch-url frame with new path p makes ctx->uri the old ctx->uri
\* followed by p; any other body leaves it as it was.
C10_AppendsToShort ==
    (/\ Completed
     /\ last.handshake
     /\ last.alloc \in {"ok", "unused"}
     /\ CountSlashes(initUri) < 3)
        => uri = IF IsPatchFrame(last.body) THEN initUri \o last.body.url
                 ELSE initUri

\* h://a became h://a/v
C10_Witness ==
    /\ Completed
    /\ last.handshake
    /\ IsPatchFrame(last.body)
    /\ last.alloc = "ok"
    /\ initUri = <<"h", ":", "/", "/", "a">>
    /\ uri = <<"h", ":", "/", "/", "a", "/", "v">>

\* C11: a first 200 response whose body is no patch-url frame with a new
\* path (it does not decode, or lacks the method, or has another method, or
\* lacks the new path) is harmless: the process lives, ctx->uri is as it
\* was and first_packet is cleared.
C11_TolerantHandshake ==
    (last.op = "cb" /\ last.handshake /\ ~IsPatchFrame(last.body))
        => (~crashed /\ uri = initUri /\ first_packet = 0)

\* C12: when asprintf fails in the handshake, ctx->uri is exactly what it
\* was before the handshake.
C12_AllocFailureKeepsUri ==
    (last.op = "cb" /\ last.handshake /\ last.alloc \in {"null", "kept"})
        => uri = initUri

\* C13: a tick that finds in_flight set issues nothing and leaves the queue,
\* ctx->uri, the interval, first_packet, in_flight and running as they
\* were; it arms the timer again exactly when running is set.
C13_TickInFlightOnlyRearms ==
    [][(last'.op = "tick" /\ in_flight # 0) =>
          /\ last'.issued = "none"
          /\ UNCHANGED <<egress, uri, repeat, first_packet, in_flight,
                         running, pending, posted>>
          /\ active' = (running # 0)]_vars

\* a tick after Stop, with a request outstanding and bytes queued: nothing
\* issued, the queue kept, the timer not armed again
C13_Witness ==
    /\ last.op = "tick"
    /\ last.issued = "none"
    /\ in_flight = 1
    /\ running = 0
    /\ ~active
    /\ egress # <<>>

\* C14: a tick that issues a request issues a GET exactly when the queue is
\* empty, and otherwise a POST whose body is the whole queue, which is
\* empty after it.
C14_MethodSelection ==
    [][(last'.op = "tick" /\ last'.issued # "none") =>
          LET req == pending'[Len(pending')]
          IN  /\ req.method = last'.issued
              /\ (req.method = "GET") <=> (egress = <<>>)
              /\ req.method = "GET" => (req.content = <<>> /\ egress' = egress)
              /\ req.method = "POST" => (req.content = egress /\ egress' = <<>>)
      ]_vars

\* a POST of two bytes queued by two egress calls or one
C14_Witness ==
    /\ last.op = "tick"
    /\ last.issued = "POST"
    /\ pending[1].content = <<1, 2>>
    /\ pending[1].method = "POST"
    /\ egress = <<>>

\* C15: every completion makes exactly one reachability report, reachable
\* when the status is above 0 and unreachable otherwise, whatever
\* first_packet, running and the body are.
C15_ReachabilityReport ==
    last.op = "cb" =>
        last.reports = << IF last.code > 0 THEN "reachable"
                          ELSE "unreachable" >>

\* a 404 with a body, before the handshake and after Stop, reported
\* reachable
C15_Witness ==
    /\ last.op = "cb"
    /\ last.code = 404
    /\ last.nonempty
    /\ first_packet = 1
    /\ running = 0
    /\ last.reports = <<"reachable">>

\* C16: a completion that runs with running clear does what any completion
\* does: one reachability report, the handshake or the delivery on a 200,
\* the backoff update, and in_flight cleared.
C16_CompletionAfterStop ==
    [][(last'.op = "cb" /\ ~last'.crash /\ running = 0) =>
          LET ok == last'.code = 200
              got == ok /\ (first_packet # 0 \/ last'.nonempty)
          IN  /\ in_flight' = 0
              /\ last'.reports = << IF last'.code > 0 THEN "reachable"
                                    ELSE "unreachable" >>
              /\ first_packet' = IF ok THEN 0 ELSE first_packet
              /\ last'.delivered = (ok /\ first_packet = 0 /\ last'.nonempty)
              /\ got => repeat' = D0_01
              /\ (~got /\ DblLess(repeat, D0_1)) => repeat' = D0_1
              /\ (~got /\ ~DblLess(repeat, D0_1) /\ DblLess(repeat, D5_0))
                    => repeat' = DblAdd(repeat, D0_1)
              /\ (~got /\ ~DblLess(repeat, D5_0)) => repeat' = repeat
      ]_vars

\* stopped with the timer no longer armed, the outstanding request completed:
\* its body was delivered, the ramped interval reset, in_flight cleared
C16_Witness ==
    /\ last.op = "cb"
    /\ running = 0
    /\ ~active
    /\ last.delivered
    /\ last.ramped
    /\ repeat = D0_01
    /\ in_flight = 0

\* C18: a completion delivers the body inbound exactly when the status is
\* 200, first_packet was already clear and the body is not empty; the body
\* of the handshake response is never delivered.
C18_InboundDelivery ==
    last.op = "cb" =>
        /\ last.delivered
              <=> (last.code = 200 /\ ~last.handshake /\ last.nonempty)
        /\ last.handshake => ~last.delivered

\* a patch-url frame that arrives after the handshake is delivered inbound
C18_Witness ==
    /\ last.op = "cb"
    /\ last.delivered
    /\ ~last.handshake
    /\ IsPatchFrame(last.body)
    /\ first_packet = 0

\* C17: whatever teardown hooks are called, and in whatever order and
\* number, the outbound queue is released at most once.
C17_QueueReleasedOnce == released <= 1

\* C20: once the queue is released, no tick reads or drains it and no
\* egress call appends to it.
C20_NoUseAfterRelease ==
    released > 0 =>
        /\ last.op # "egress"
        /\ last.op = "tick" => ~last.read

\* C19: in a started channel that is not stopped, whose timer fires and
\* whose requests complete, every byte egress has appended is eventually
\* part of a POST body.
C19_EventualTransmission ==
    \A k \in 1..MaxBytes :
        (running = 1 /\ appended >= k) ~> (Len(posted) >= k)

====
